---- MODULE Spec2Model ----
(***************************************************************************)
(* TradingView -> Kraken webhook relay (joelvdhoeven/KrakenWebhook).       *)
(*                                                                         *)
(* The model follows one webhook request through                           *)
(*   receiver.tradingview_webhook / validate_tradingview_webhook           *)
(*   -> PayloadProcessor.process_request (_validate_signature, JSON parse, *)
(*      _log_payload, TradingViewAlert validation, from_tradingview_alert) *)
(*   -> KrakenExecutor.execute_trade / validate_trade (_initialize)        *)
(*   -> the HTTP response.                                                 *)
(*                                                                         *)
(* Python values are modelled by uniformly shaped records so that every    *)
(* comparison is between values of one shape:                              *)
(*   - an optional JSON number is [k, n], k in absent/null/num/inf;        *)
(*   - the symbol is [k, s], s a sequence of one-character strings;        *)
(*   - a raw request body is a record whose field ws tells two byte        *)
(*     sequences with the same JSON content apart;                         *)
(*   - an X-Signature header is [kind, key, msg]; a hex HMAC-SHA256 digest *)
(*     is the symbolic value [kind |-> "hex", key, msg] (no collisions).   *)
(***************************************************************************)
EXTENDS Integers, Sequences, FiniteSets, TLC

VARIABLES
    webhook_secret_source,  \* WEBHOOK_SECRET as secret_manager.get_secret finds it
    environment,            \* config.environment
    _webhook_secret,        \* PayloadProcessor._webhook_secret (cache)
    _initialized,           \* KrakenExecutor._initialized
    _last_init_attempt,     \* KrakenExecutor._last_init_attempt
    clock,                  \* time.time()
    loop,                   \* request whose synchronous code holds the event loop (0: none)
    reqs                    \* the requests in flight, by request id

vars == <<webhook_secret_source, environment, _webhook_secret, _initialized,
          _last_init_attempt, clock, loop, reqs>>

----------------------------------------------------------------------------
(* Bounds of the model *)

\* number of clock advances in one behaviour
MaxTicks == 1
\* JSON numbers range over -MaxNum .. MaxNum (and a literal that overflows to inf)
MaxNum == 1
\* number of requests in flight at once in SpecConcurrent
NumReq == 2
\* number of half-cooldown clock advances in one behaviour of SpecConcurrent
MaxHalfTicks == 2
\* length of the arbitrary symbols of SpecSymbol
MaxSymLen == 2

(* Program constants *)

\* KrakenExecutor._init_cooldown
InitCooldown == 60
\* seconds added by one clock advance: one cooldown period
TickSeconds == InitCooldown
\* seconds added by one clock advance of SpecConcurrent: half a cooldown
HalfCooldown == InitCooldown \div 2
\* time.time() when the process starts: the epoch is long past, so a first
\* initialization attempt is never inside the cooldown of _last_init_attempt = 0
StartTime == InitCooldown

HTTP_200_OK == 200
HTTP_400_BAD_REQUEST == 400
HTTP_401_UNAUTHORIZED == 401
HTTP_500_INTERNAL_SERVER_ERROR == 500

----------------------------------------------------------------------------
(* Python values *)

\* None of an Optional[str]
None == "<None>"
\* a key that a JSON object does not have
Absent == "<absent>"

NumAbsent == [k |-> "absent", n |-> 0]
NumNull == [k |-> "null", n |-> 0]
NumInf == [k |-> "inf", n |-> 0]
Num(n) == [k |-> "num", n |-> n]

\* Python's Optional[float] after validation
FloatNone == [k |-> "none", n |-> 0]
FloatInf == [k |-> "inf", n |-> 0]
Float(n) == [k |-> "num", n |-> n]

SymAbsent == [k |-> "absent", s |-> <<>>]
Sym(s) == [k |-> "str", s |-> s]

XBTUSD == <<"X", "B", "T", "U", "S", "D">>
BTCUSD == <<"B", "T", "C", "U", "S", "D">>
btcusd == <<"b", "t", "c", "u", "s", "d">>
BTC_USD == <<"B", "T", "C", "/", "U", "S", "D">>
ETHUSD == <<"E", "T", "H", "U", "S", "D">>
ETH_USD == <<"E", "T", "H", "/", "U", "S", "D">>

\* str(float): Python prints an integral float with a trailing ".0"
FloatStr(f) ==
    IF f.k = "inf" THEN "inf"
    ELSE IF f.n < 0 THEN "-" \o ToString(0 - f.n) \o ".0"
    ELSE ToString(f.n) \o ".0"

\* str(int)
IntStr(f) == IF f.n < 0 THEN "-" \o ToString(0 - f.n) ELSE ToString(f.n)

----------------------------------------------------------------------------
(* Requests: raw body and X-Signature header *)

BodyKinds == {"notjson", "badutf8", "null", "number", "string", "array", "object"}

\* a raw body that carries no alert fields (every kind but "object")
RawOther(kind, ws) ==
    [kind |-> kind, ws |-> ws, symbol |-> SymAbsent, side |-> Absent,
     order_type |-> Absent, volume |-> NumAbsent, price |-> NumAbsent,
     stop_price |-> NumAbsent, leverage |-> NumAbsent]

\* the raw bytes of a JSON object with the given members
RawObject(ws, symbol, side, order_type, volume, price, stop_price, leverage) ==
    [kind |-> "object", ws |-> ws, symbol |-> symbol, side |-> side,
     order_type |-> order_type, volume |-> volume, price |-> price,
     stop_price |-> stop_price, leverage |-> leverage]

\* json.dumps(json.loads(raw)): the canonical bytes of the same JSON value
Reserialize(raw) == [raw EXCEPT !.ws = 0]

NoMsg == RawOther("notjson", 0)

HdrAbsent == [kind |-> "absent", key |-> "", msg |-> NoMsg]
HdrEmpty == [kind |-> "empty", key |-> "", msg |-> NoMsg]
\* printable ASCII text that is no digest of anything
HdrAscii == [kind |-> "ascii", key |-> "", msg |-> NoMsg]
\* a header value with a byte >= 0x80 (Starlette decodes headers as latin-1)
HdrNonAscii == [kind |-> "nonascii", key |-> "", msg |-> NoMsg]

\* hmac.new(key.encode(), msg, hashlib.sha256).hexdigest()
hmac_hexdigest(key, msg) == [kind |-> "hex", key |-> key, msg |-> msg]

\* hmac.compare_digest(a, b) on str arguments: a TypeError unless both are
\* ASCII; b is always a hexdigest
compare_digest(a, b) ==
    IF a.kind = "nonascii" THEN "TypeError"
    ELSE IF a = b THEN "equal" ELSE "different"

----------------------------------------------------------------------------
(* SecretManager and PayloadProcessor._get_webhook_secret *)

\* SecretManager.get_secret("WEBHOOK_SECRET"): a value that is set and not
\* empty, else the default None
get_secret(source) == IF source # None /\ source # "" THEN source ELSE None

\* mutant of _get_webhook_secret: the configuration is read on every call
_get_webhook_secret_uncached(cache, source) == get_secret(source)

\* PayloadProcessor._get_webhook_secret: the cache after the call (also the
\* value returned)
_get_webhook_secret(cache, source) ==
    IF cache = None THEN get_secret(source) ELSE cache

\* "not webhook_secret"
Falsy(s) == s = None \/ s = ""

\* mutant of SignatureHeaderStep: the header is demanded even when no secret
\* is configured
SignatureHeaderStep_always_verify(webhook_secret, signature) ==
    IF signature.kind \in {"absent", "empty"} THEN "missing"
    ELSE IF Falsy(webhook_secret) THEN "skip"
    ELSE "verify"

\* PayloadProcessor._validate_signature up to "await request.body()":
\* "skip", "missing" (HTTPException 401) or "verify"
SignatureHeaderStep(webhook_secret, signature) ==
    IF Falsy(webhook_secret) THEN "skip"
    ELSE IF signature.kind \in {"absent", "empty"} THEN "missing"
    ELSE "verify"

\* mutant of SignatureCompareStep: the digest is computed over the
\* re-serialized JSON instead of the raw bytes
SignatureCompareStep_reserialized(webhook_secret, signature, body) ==
    LET expected_signature == hmac_hexdigest(webhook_secret, Reserialize(body))
        cmp == compare_digest(signature, expected_signature)
    IN  IF cmp = "TypeError" THEN "TypeError"
        ELSE IF cmp = "equal" THEN "ok" ELSE "invalid"

\* PayloadProcessor._validate_signature from the raw body on:
\* "ok", "invalid" (HTTPException 401) or "TypeError" (raised by compare_digest)
SignatureCompareStep(webhook_secret, signature, body) ==
    LET expected_signature == hmac_hexdigest(webhook_secret, body)
        cmp == compare_digest(signature, expected_signature)
    IN  IF cmp = "TypeError" THEN "TypeError"
        ELSE IF cmp = "equal" THEN "ok" ELSE "invalid"

\* PayloadProcessor._validate_signature as a whole
_validate_signature(webhook_secret, signature, body) ==
    LET first == SignatureHeaderStep(webhook_secret, signature)
    IN  IF first = "verify"
        THEN SignatureCompareStep(webhook_secret, signature, body)
        ELSE first

----------------------------------------------------------------------------
(* utils/models.py: TradingViewAlert *)

OrderTypes == {"market", "limit", "stop-loss", "take-profit",
               "stop-loss-limit", "take-profit-limit"}
OrderSides == {"buy", "sell"}

\* str.upper() on one character
UpperChar(c) ==
    CASE c = "b" -> "B" [] c = "t" -> "T" [] c = "c" -> "C" [] c = "u" -> "U"
      [] c = "s" -> "S" [] c = "d" -> "D" [] c = "e" -> "E" [] c = "h" -> "H"
      [] c = "x" -> "X" [] OTHER -> c

\* a character whose uppercase form is two characters (U+00DF, "SS")
Eszett == "sz"

\* str.upper(): character by character, without context; the result may be
\* longer than the argument
RECURSIVE Upper(_)
Upper(s) ==
    IF s = <<>> THEN <<>>
    ELSE (IF Head(s) = Eszett THEN <<"S", "S">> ELSE <<UpperChar(Head(s))>>)
         \o Upper(Tail(s))

\* mutant of validate_symbol: the alias table is consulted before the symbol
\* is uppercased
validate_symbol_map_first(v) ==
    LET mapped == IF v = BTCUSD \/ v = BTC_USD THEN XBTUSD
                  ELSE IF v = ETHUSD \/ v = ETH_USD THEN ETHUSD
                  ELSE v
    IN  Upper(mapped)

\* TradingViewAlert.validate_symbol: uppercase, then symbol_mappings.get(v, v)
validate_symbol(v) ==
    LET u == Upper(v)
    IN  IF u = BTCUSD \/ u = BTC_USD THEN XBTUSD
        ELSE IF u = ETHUSD \/ u = ETH_USD THEN ETHUSD
        ELSE u

\* kwargs.get('field', '') in validate_prices: pydantic hands the validator no
\* string under 'field' (nothing at all, or the field object), so the value
\* compared with 'price' and 'stop_price' is never one of those names
KwargsField(field) == ""

price_required_for == {"limit", "stop-loss-limit", "take-profit-limit"}
stop_price_required_for == {"stop-loss", "stop-loss-limit", "take-profit",
                            "take-profit-limit"}

\* TradingViewAlert.validate_prices(v, values, field=...): TRUE when it raises
\* ValueError; order_type is values.get('order_type')
validate_prices(v, field, order_type) ==
    /\ v.k = "none"
    /\ LET field_name == KwargsField(field)
       IN  \/ (field_name = "price" /\ order_type \in price_required_for)
           \/ (field_name = "stop_price" /\ order_type \in stop_price_required_for)

\* mutant of validate_volume: a volume of zero is let through
validate_volume_negative_only(v) == v.k = "num" /\ v.n < 0

\* TradingViewAlert.validate_volume: TRUE when it raises ValueError
validate_volume(v) == v.k = "num" /\ v.n <= 0

\* the Optional[float] pydantic makes of a JSON member
ToFloat(j) ==
    IF j.k = "num" THEN Float(j.n)
    ELSE IF j.k = "inf" THEN FloatInf
    ELSE FloatNone

\* the fields of TradingViewAlert(**body) that fail validation.  A class
\* validator runs only on a member that the payload supplies (no always=True).
AlertErrors(body) ==
    LET order_type == IF body.order_type = Absent THEN "market"
                      ELSE IF body.order_type \in OrderTypes THEN body.order_type
                      ELSE None
    IN  {f \in {"symbol", "side", "order_type", "volume", "price", "stop_price"} :
            \/ f = "symbol" /\ body.symbol.k = "absent"
            \/ f = "side" /\ body.side \notin OrderSides
            \/ f = "order_type" /\ body.order_type # Absent
                                /\ body.order_type \notin OrderTypes
            \/ f = "volume" /\ body.volume.k # "absent"
                            /\ validate_volume(ToFloat(body.volume))
            \/ f = "price" /\ body.price.k # "absent"
                           /\ validate_prices(ToFloat(body.price), "price", order_type)
            \/ f = "stop_price" /\ body.stop_price.k # "absent"
                                /\ validate_prices(ToFloat(body.stop_price),
                                                   "stop_price", order_type)}

\* the TradingViewAlert built from a body without validation errors
MakeAlert(body) ==
    [symbol |-> validate_symbol(body.symbol.s),
     side |-> body.side,
     order_type |-> IF body.order_type = Absent THEN "market" ELSE body.order_type,
     volume |-> ToFloat(body.volume),
     price |-> ToFloat(body.price),
     stop_price |-> ToFloat(body.stop_price),
     leverage |-> ToFloat(body.leverage)]

NoAlert ==
    [symbol |-> <<>>, side |-> None, order_type |-> None, volume |-> FloatNone,
     price |-> FloatNone, stop_price |-> FloatNone, leverage |-> FloatNone]

----------------------------------------------------------------------------
(* utils/models.py: TradeRequest *)

NoTradeRequest ==
    [pair |-> <<>>, type |-> None, ordertype |-> None, volume |-> None,
     price |-> None, price2 |-> None, leverage |-> None, validate |-> None]

\* mutant of from_tradingview_alert: the stop price goes to the primary price
\* for every order type
from_tradingview_alert_stop_to_price(alert) ==
    LET base == [NoTradeRequest EXCEPT !.pair = alert.symbol,
                                       !.type = alert.side,
                                       !.ordertype = alert.order_type]
        withVolume == IF alert.volume.k # "none"
                      THEN [base EXCEPT !.volume = FloatStr(alert.volume)]
                      ELSE base
        withPrice == IF alert.price.k # "none"
                     THEN [withVolume EXCEPT !.price = FloatStr(alert.price)]
                     ELSE withVolume
        withStop == IF alert.stop_price.k # "none"
                    THEN [withPrice EXCEPT !.price = FloatStr(alert.stop_price)]
                    ELSE withPrice
    IN  IF alert.leverage.k # "none"
        THEN [withStop EXCEPT !.leverage = IntStr(alert.leverage)]
        ELSE withStop

\* mutant of from_tradingview_alert: the order type is not copied, every
\* command is a market order
from_tradingview_alert_market_only(alert) ==
    LET base == [NoTradeRequest EXCEPT !.pair = alert.symbol,
                                       !.type = alert.side,
                                       !.ordertype = "market"]
        withVolume == IF alert.volume.k # "none"
                      THEN [base EXCEPT !.volume = FloatStr(alert.volume)]
                      ELSE base
        withPrice == IF alert.price.k # "none"
                     THEN [withVolume EXCEPT !.price = FloatStr(alert.price)]
                     ELSE withVolume
        withStop == IF alert.stop_price.k # "none"
                    THEN IF alert.order_type \in {"stop-loss-limit", "take-profit-limit"}
                         THEN [withPrice EXCEPT !.price2 = FloatStr(alert.stop_price)]
                         ELSE [withPrice EXCEPT !.price = FloatStr(alert.stop_price)]
                    ELSE withPrice
    IN  IF alert.leverage.k # "none"
        THEN [withStop EXCEPT !.leverage = IntStr(alert.leverage)]
        ELSE withStop

\* TradeRequest.from_tradingview_alert
from_tradingview_alert(alert) ==
    LET base == [NoTradeRequest EXCEPT !.pair = alert.symbol,
                                       !.type = alert.side,
                                       !.ordertype = alert.order_type]
        withVolume == IF alert.volume.k # "none"
                      THEN [base EXCEPT !.volume = FloatStr(alert.volume)]
                      ELSE base
        withPrice == IF alert.price.k # "none"
                     THEN [withVolume EXCEPT !.price = FloatStr(alert.price)]
                     ELSE withVolume
        withStop == IF alert.stop_price.k # "none"
                    THEN IF alert.order_type \in {"stop-loss-limit", "take-profit-limit"}
                         THEN [withPrice EXCEPT !.price2 = FloatStr(alert.stop_price)]
                         ELSE [withPrice EXCEPT !.price = FloatStr(alert.stop_price)]
                    ELSE withPrice
    IN  IF alert.leverage.k # "none"
        THEN [withStop EXCEPT !.leverage = IntStr(alert.leverage)]
        ELSE withStop

\* TradeRequest.dict(exclude_none=True): the members that are not None
DictExcludeNone(trade_request) ==
    LET keys == {f \in {"type", "ordertype", "volume", "price", "price2",
                        "leverage", "validate"} : trade_request[f] # None}
    IN  [pair |-> trade_request.pair, fields |-> [f \in keys |-> trade_request[f]]]

----------------------------------------------------------------------------
(* utils/models.py: TradeResponse *)

NoDetails == [kind |-> "none", retry_after |-> 0]

\* TradeResponse.success_response
success_response(order_id, details) ==
    [success |-> TRUE, order_id |-> order_id, error |-> None, details |-> details]

\* TradeResponse.error_response
error_response(error, details) ==
    [success |-> FALSE, order_id |-> None, error |-> error, details |-> details]

NoTradeResponse == error_response(None, NoDetails)

----------------------------------------------------------------------------
(* executor/kraken_executor.py *)

\* what the exchange may answer to the connectivity probe query_public('Time')
ProbeAnswers == {"ok", "error", "exception"}

\* what the exchange may answer to query_private('AddOrder', params):
\*   "error"      a non-empty error list
\*   "txid"       an empty error list and result.txid = [OrderId]
\*   "empty_txid" an empty error list and result.txid = []
\*   "no_txid"    an empty error list and a result without txid (the
\*                acknowledgement of a validate-only order)
\*   "exception"  the call raises
OrderAnswers == {"error", "txid", "empty_txid", "no_txid", "exception"}

OrderId == "OABCDE-12345"
OrderId2 == "OFGHIJ-67890"

\* more answers to AddOrder, for SpecGateway:
\*   "error_txid" a non-empty error list together with result.txid = [OrderId]
\*   "two_txids"  an empty error list and result.txid = [OrderId2, OrderId]
\*   "no_result"  an empty error list and no result member
GatewayAnswers == OrderAnswers \cup {"error_txid", "two_txids", "no_result"}

\* the reply of query_private('AddOrder', params) behind each answer: whether
\* the call raises, result['error'], and result['result']['txid'] (k tells
\* whether there is one)
NoReply == [raises |-> FALSE, error |-> <<>>, txid |-> [k |-> "absent", ids |-> <<>>]]

Reply(answer) ==
    CASE answer = "exception" -> [NoReply EXCEPT !.raises = TRUE]
      [] answer = "error" -> [NoReply EXCEPT !.error = <<"EOrder:Insufficient funds">>]
      [] answer = "error_txid" ->
            [NoReply EXCEPT !.error = <<"EGeneral:Internal error">>,
                            !.txid = [k |-> "list", ids |-> <<OrderId>>]]
      [] answer = "txid" -> [NoReply EXCEPT !.txid = [k |-> "list", ids |-> <<OrderId>>]]
      [] answer = "two_txids" ->
            [NoReply EXCEPT !.txid = [k |-> "list", ids |-> <<OrderId2, OrderId>>]]
      [] answer = "empty_txid" -> [NoReply EXCEPT !.txid = [k |-> "list", ids |-> <<>>]]
      [] OTHER -> NoReply

NoCall == [op |-> "none", pair |-> <<>>, fields |-> [f \in {} |-> None]]

\* mutant of _initialize: a call skipped during the cooldown restarts it
_initialize_restart_cooldown(initialized, last_init_attempt, current_time, credentials, probe) ==
    IF current_time - last_init_attempt < InitCooldown /\ ~initialized
    THEN [ok |-> FALSE, initialized |-> initialized,
          last_init_attempt |-> current_time,
          attempted |-> FALSE, probed |-> FALSE]
    ELSE IF ~credentials
    THEN [ok |-> FALSE, initialized |-> initialized,
          last_init_attempt |-> current_time,
          attempted |-> TRUE, probed |-> FALSE]
    ELSE IF probe = "error"
    THEN [ok |-> FALSE, initialized |-> initialized,
          last_init_attempt |-> current_time,
          attempted |-> TRUE, probed |-> TRUE]
    ELSE IF probe = "exception"
    THEN [ok |-> FALSE, initialized |-> FALSE,
          last_init_attempt |-> current_time,
          attempted |-> TRUE, probed |-> TRUE]
    ELSE [ok |-> TRUE, initialized |-> TRUE,
          last_init_attempt |-> current_time,
          attempted |-> TRUE, probed |-> TRUE]

\* KrakenExecutor._initialize.  credentials: both Kraken credentials are
\* configured; probe: the exchange's answer to query_public('Time').
\* ok is the value returned, attempted tells a new attempt from a skipped one.
_initialize(initialized, last_init_attempt, current_time, credentials, probe) ==
    IF current_time - last_init_attempt < InitCooldown /\ ~initialized
    THEN [ok |-> FALSE, initialized |-> initialized,
          last_init_attempt |-> last_init_attempt,
          attempted |-> FALSE, probed |-> FALSE]
    ELSE IF ~credentials
    THEN [ok |-> FALSE, initialized |-> initialized,
          last_init_attempt |-> current_time,
          attempted |-> TRUE, probed |-> FALSE]
    ELSE IF probe = "error"
    THEN [ok |-> FALSE, initialized |-> initialized,
          last_init_attempt |-> current_time,
          attempted |-> TRUE, probed |-> TRUE]
    ELSE IF probe = "exception"
    THEN [ok |-> FALSE, initialized |-> FALSE,
          last_init_attempt |-> current_time,
          attempted |-> TRUE, probed |-> TRUE]
    ELSE [ok |-> TRUE, initialized |-> TRUE,
          last_init_attempt |-> current_time,
          attempted |-> TRUE, probed |-> TRUE]

\* mutant of OrderResult: a reply without errors is a success, with or
\* without a txid
OrderResult_ack_is_success(answer) ==
    LET result == Reply(answer)
        details == [kind |-> "kraken_response", retry_after |-> 0]
    IN  IF result.raises
        THEN error_response("Exception during trade execution: ", NoDetails)
        ELSE IF result.error # <<>>
        THEN error_response("Kraken API error: ", details)
        ELSE success_response(IF result.txid.ids # <<>> THEN result.txid.ids[1]
                              ELSE None, details)

\* the TradeResponse execute_trade makes of the exchange's answer to AddOrder
OrderResult(answer) ==
    LET result == Reply(answer)
        details == [kind |-> "kraken_response", retry_after |-> 0]
    IN  IF result.raises
        THEN error_response("Exception during trade execution: ", NoDetails)
        ELSE IF result.error # <<>>
        THEN error_response("Kraken API error: ", details)
        ELSE IF result.txid.k = "list" /\ result.txid.ids # <<>>
        THEN success_response(result.txid.ids[1], details)
        ELSE error_response("Unexpected response from Kraken API", details)

\* mutant of ExchangeCalls: an order call that failed is sent a second time
ExchangeCalls_resend(init, answer) ==
    (IF init.probed THEN <<"Time">> ELSE <<>>)
    \o (IF ~init.ok THEN <<>>
        ELSE IF answer \in {"error", "exception"} THEN <<"AddOrder", "AddOrder">>
        ELSE <<"AddOrder">>)

\* the calls execute_trade makes to the exchange, in order: the connectivity
\* probe of an initialization attempt, then one query_private('AddOrder'),
\* whatever its answer
ExchangeCalls(init, answer) ==
    (IF init.probed THEN <<"Time">> ELSE <<>>)
    \o (IF init.ok THEN <<"AddOrder">> ELSE <<>>)

\* mutant of execute_trade: an order call that raises returns the client to
\* the uninitialized state
execute_trade_forget_client(trade_request, initialized, last_init_attempt, current_time, credentials, probe, answer) ==
    LET init == IF initialized
                THEN [ok |-> TRUE, initialized |-> initialized,
                      last_init_attempt |-> last_init_attempt,
                      attempted |-> FALSE, probed |-> FALSE]
                ELSE _initialize(initialized, last_init_attempt, current_time,
                                 credentials, probe)
        params == DictExcludeNone(trade_request)
    IN  IF ~init.ok
        THEN [response |-> error_response("Failed to initialize Kraken API",
                              [kind |-> "retry_after", retry_after |-> InitCooldown]),
              init |-> init, order |-> NoCall,
              calls |-> ExchangeCalls(init, answer)]
        ELSE [response |-> OrderResult(answer),
              init |-> [init EXCEPT !.initialized = (answer # "exception")],
              calls |-> ExchangeCalls(init, answer),
              order |-> [op |-> "AddOrder", pair |-> params.pair,
                         fields |-> params.fields]]

\* KrakenExecutor.execute_trade: the response, the executor's state after the
\* call, the order sent and the calls made to the exchange
execute_trade(trade_request, initialized, last_init_attempt, current_time, credentials, probe, answer) ==
    LET init == IF initialized
                THEN [ok |-> TRUE, initialized |-> initialized,
                      last_init_attempt |-> last_init_attempt,
                      attempted |-> FALSE, probed |-> FALSE]
                ELSE _initialize(initialized, last_init_attempt, current_time,
                                 credentials, probe)
        params == DictExcludeNone(trade_request)
    IN  IF ~init.ok
        THEN [response |-> error_response("Failed to initialize Kraken API",
                              [kind |-> "retry_after", retry_after |-> InitCooldown]),
              init |-> init, order |-> NoCall,
              calls |-> ExchangeCalls(init, answer)]
        ELSE [response |-> OrderResult(answer),
              init |-> init,
              calls |-> ExchangeCalls(init, answer),
              order |-> [op |-> "AddOrder", pair |-> params.pair,
                         fields |-> params.fields]]

\* mutant of ValidationRequest: the copy is made and the flag is not set
ValidationRequest_unflagged(trade_request) == trade_request

\* the copy validate_trade makes: TradeRequest(**trade_request.dict()) with
\* validate = True
ValidationRequest(trade_request) == [trade_request EXCEPT !.validate = "True"]

\* KrakenExecutor.validate_trade
validate_trade(trade_request, initialized, last_init_attempt, current_time, credentials, probe, answer) ==
    execute_trade(ValidationRequest(trade_request), initialized,
                  last_init_attempt, current_time, credentials, probe, answer)

----------------------------------------------------------------------------
(* HTTP responses *)

NoDetail == [text |-> "", fields |-> {}]

NoResponse ==
    [status |-> 0, success |-> FALSE, message |-> "", order_id |-> None,
     error |-> None, detail |-> NoDetail]

\* what FastAPI answers to a raised HTTPException(status_code, detail)
HTTPException(status_code, text, fields) ==
    [NoResponse EXCEPT !.status = status_code,
                       !.detail = [text |-> text, fields |-> fields]]

\* str(e) of the exceptions the handlers can meet
AttributeErrorText == "object has no attribute 'copy'"
MappingErrorText == "argument after ** must be a mapping"
UnicodeErrorText == "'utf-8' codec can't decode byte"
NonAsciiErrorText == "comparing strings with non-ASCII characters is not supported"
JsonRangeErrorText == "Out of range float values are not JSON compliant"

GenericErrorText == "An unexpected error occurred"

\* the "except Exception" branch of tradingview_webhook and
\* validate_tradingview_webhook
HandlerExceptionResponse(text) ==
    [NoResponse EXCEPT !.status = HTTP_500_INTERNAL_SERVER_ERROR,
                       !.message = "Internal server error",
                       !.error = text]

\* main.global_exception_handler
global_exception_handler(text, env) ==
    [NoResponse EXCEPT !.status = HTTP_500_INTERNAL_SERVER_ERROR,
                       !.message = "Internal server error",
                       !.error = IF env = "development" THEN text
                                 ELSE GenericErrorText]

\* JSONResponse(content=response_data) raises ValueError when a float of
\* trade_details (volume, price) is not finite: json.dumps(allow_nan=False)
RenderRaises(alert) == alert.volume.k = "inf" \/ alert.price.k = "inf"

\* tradingview_webhook / validate_tradingview_webhook from the TradeResponse on
HandlerResponse(endpoint, alert, trade_response) ==
    IF RenderRaises(alert)
    THEN HandlerExceptionResponse(JsonRangeErrorText)
    ELSE [status |-> IF trade_response.success THEN HTTP_200_OK
                     ELSE HTTP_400_BAD_REQUEST,
          success |-> trade_response.success,
          message |-> IF endpoint = "live"
                      THEN (IF trade_response.success THEN "Order executed"
                            ELSE "Order failed")
                      ELSE (IF trade_response.success THEN "Validation successful"
                            ELSE "Validation failed"),
          order_id |-> IF endpoint = "live" THEN trade_response.order_id ELSE None,
          error |-> trade_response.error,
          detail |-> NoDetail]

----------------------------------------------------------------------------
(* processor/payload_processor.py: process_request after the signature step *)

\* _log_payload(body) raises AttributeError: the parsed value has no copy()
_log_payload(body) == body.kind \in {"null", "number", "string"}

\* mutant of ProcessBody: a ValidationError does not end the request
ProcessBody_unvalidated(body) ==
    LET fail(result, status, text, fields, exc, steps) ==
            [result |-> result, status |-> status, text |-> text,
             fields |-> fields, exc |-> exc, steps |-> steps,
             alert |-> NoAlert, trade_request |-> NoTradeRequest]
    IN  IF body.kind = "badutf8"
        THEN fail("raise", 0, "", {}, UnicodeErrorText, <<>>)
        ELSE IF body.kind = "notjson"
        THEN fail("http", HTTP_400_BAD_REQUEST, "Invalid JSON payload", {}, None, <<>>)
        ELSE IF _log_payload(body)
        THEN fail("raise", 0, "", {}, AttributeErrorText, <<"parse">>)
        ELSE IF body.kind # "object"
        THEN fail("raise", 0, "", {}, MappingErrorText, <<"parse">>)
        ELSE [result |-> "ok", status |-> 0, text |-> "", fields |-> {},
              exc |-> None, steps |-> <<"parse", "validate", "translate">>,
              alert |-> MakeAlert(body),
              trade_request |-> from_tradingview_alert(MakeAlert(body))]

\* process_request from "await request.json()" on.
\*   result "ok":    (alert, trade_request) is returned
\*   result "http":  HTTPException(status, detail) is raised
\*   result "raise": another exception, with text exc, is raised
\* steps lists the steps that completed.
ProcessBody(body) ==
    LET fail(result, status, text, fields, exc, steps) ==
            [result |-> result, status |-> status, text |-> text,
             fields |-> fields, exc |-> exc, steps |-> steps,
             alert |-> NoAlert, trade_request |-> NoTradeRequest]
    IN  IF body.kind = "badutf8"
        THEN fail("raise", 0, "", {}, UnicodeErrorText, <<>>)
        ELSE IF body.kind = "notjson"
        THEN fail("http", HTTP_400_BAD_REQUEST, "Invalid JSON payload", {}, None, <<>>)
        ELSE IF _log_payload(body)
        THEN fail("raise", 0, "", {}, AttributeErrorText, <<"parse">>)
        ELSE IF body.kind # "object"
        THEN fail("raise", 0, "", {}, MappingErrorText, <<"parse">>)
        ELSE IF AlertErrors(body) # {}
        THEN fail("http", HTTP_400_BAD_REQUEST, "Invalid payload format",
                  AlertErrors(body), None, <<"parse">>)
        ELSE [result |-> "ok", status |-> 0, text |-> "", fields |-> {},
              exc |-> None, steps |-> <<"parse", "validate", "translate">>,
              alert |-> MakeAlert(body),
              trade_request |-> from_tradingview_alert(MakeAlert(body))]

----------------------------------------------------------------------------
(* The inputs of the model *)

Endpoints == {"live", "validate"}

\* the configured shared secrets, and a key that is not the configured one
ConfiguredSecrets == {"K1"}
SecretSources == {None, ""} \cup ConfiguredSecrets
SigningKeys == ConfiguredSecrets \cup {"K2"}

\* the same JSON text with other whitespace
OtherBytes(body) == [body EXCEPT !.ws = 1 - body.ws]

\* the X-Signature headers a request with this body may carry
HeadersFor(body) ==
    {HdrAbsent, HdrEmpty, HdrAscii, HdrNonAscii}
    \cup {hmac_hexdigest(k, body) : k \in SigningKeys}
    \cup {hmac_hexdigest(k, OtherBytes(body)) : k \in ConfiguredSecrets}

RequestsWith(bodies) ==
    UNION {{[endpoint |-> e, signature |-> h, body |-> b] :
                e \in Endpoints, h \in HeadersFor(b)} : b \in bodies}

ValidBody ==
    RawObject(0, Sym(btcusd), "buy", Absent, Num(MaxNum), NumAbsent, NumAbsent, NumAbsent)

\* the JSON numbers of the model; a literal such as 1e999 parses as inf
Volumes == {Num(n) : n \in (0 - MaxNum)..MaxNum} \cup {NumInf}

\* the bodies of the specification Spec: every kind of body that is no JSON
\* object, a valid alert in two byte forms, the alerts that differ in symbol,
\* side and volume, and the alerts that differ in order type and prices
SpecBodies ==
    {RawOther(k, 0) : k \in BodyKinds \ {"object"}}
    \cup {OtherBytes(ValidBody)}
    \cup {RawObject(0, sym, side, Absent, vol, NumAbsent, NumAbsent, NumAbsent) :
            sym \in {SymAbsent, Sym(btcusd)}, side \in {"buy", "bogus"},
            vol \in Volumes}
    \cup {RawObject(0, Sym(btcusd), "buy", ot, Num(MaxNum), price, stop, NumAbsent) :
            ot \in {"limit", "stop-loss", "stop-loss-limit", "bogus"},
            price \in {NumAbsent, NumNull, Num(MaxNum)},
            stop \in {NumAbsent, Num(MaxNum)}}

SpecRequests == RequestsWith(SpecBodies)

----------------------------------------------------------------------------
(* The state machine *)

IdleRequest ==
    [pc |-> "idle", endpoint |-> "live", signature |-> HdrAbsent, body |-> NoMsg,
     webhook_secret |-> None, steps |-> <<>>, alert |-> NoAlert,
     trade_request |-> NoTradeRequest, attempted |-> FALSE, probed |-> FALSE,
     order |-> NoCall, calls |-> <<>>, answer |-> None,
     outcome |-> NoTradeResponse,
     exc |-> None, response |-> NoResponse]

\* the request ends with this response
Respond(req, steps, response, exc) ==
    [req EXCEPT !.pc = "responded", !.steps = req.steps \o steps \o <<"respond">>,
                !.response = response, !.exc = exc]

InitWith(ids) ==
    /\ webhook_secret_source \in SecretSources
    /\ environment \in {"development", "production"}
    /\ _webhook_secret = None
    /\ _initialized = FALSE
    /\ _last_init_attempt = 0
    /\ clock = StartTime
    /\ loop = 0
    /\ reqs = [r \in ids |-> IdleRequest]

\* a request arrives
Receive(r, inputs) ==
    /\ reqs[r].pc = "idle"
    /\ \E in \in inputs :
         reqs' = [reqs EXCEPT ![r] =
                    [IdleRequest EXCEPT !.pc = "received",
                                        !.endpoint = in.endpoint,
                                        !.signature = in.signature,
                                        !.body = in.body]]
    /\ UNCHANGED <<webhook_secret_source, environment, _webhook_secret,
                   _initialized, _last_init_attempt, clock, loop>>

\* the handler runs up to its first await: process_request,
\* _validate_signature up to "await request.body()" (or, when verification is
\* skipped, up to "await request.json()")
HandlerStart(r) ==
    /\ reqs[r].pc = "received"
    /\ loop = 0
    /\ LET webhook_secret == _get_webhook_secret(_webhook_secret, webhook_secret_source)
           first == SignatureHeaderStep(webhook_secret, reqs[r].signature)
       IN  /\ _webhook_secret' = webhook_secret
           /\ reqs' = [reqs EXCEPT ![r] =
                IF first = "missing"
                THEN Respond([@ EXCEPT !.webhook_secret = webhook_secret], <<>>,
                             HTTPException(HTTP_401_UNAUTHORIZED,
                                           "Missing signature header", {}), None)
                ELSE [@ EXCEPT !.pc = "awaiting_body",
                               !.webhook_secret = webhook_secret]]
    /\ UNCHANGED <<webhook_secret_source, environment, _initialized,
                   _last_init_attempt, clock, loop>>

\* the handler resumes with the raw body: the rest of _validate_signature, the
\* rest of process_request, and the call of kraken_executor, whose blocking
\* exchange calls hold the event loop
HandlerResume(r) ==
    /\ reqs[r].pc = "awaiting_body"
    /\ loop = 0
    /\ LET req == reqs[r]
           sig == IF Falsy(req.webhook_secret) THEN "skip"
                  ELSE SignatureCompareStep(req.webhook_secret, req.signature, req.body)
           p == ProcessBody(req.body)
       IN  IF sig = "invalid"
           THEN /\ reqs' = [reqs EXCEPT ![r] =
                      Respond(req, <<>>, HTTPException(HTTP_401_UNAUTHORIZED,
                                                       "Invalid signature", {}), None)]
                /\ loop' = loop
           ELSE IF sig = "TypeError"
           THEN /\ reqs' = [reqs EXCEPT ![r] =
                      Respond(req, <<>>, HandlerExceptionResponse(NonAsciiErrorText),
                              NonAsciiErrorText)]
                /\ loop' = loop
           ELSE IF p.result = "http"
           THEN /\ reqs' = [reqs EXCEPT ![r] =
                      Respond(req, <<"signature">> \o p.steps,
                              HTTPException(p.status, p.text, p.fields), None)]
                /\ loop' = loop
           ELSE IF p.result = "raise"
           THEN /\ reqs' = [reqs EXCEPT ![r] =
                      Respond(req, <<"signature">> \o p.steps,
                              HandlerExceptionResponse(p.exc), p.exc)]
                /\ loop' = loop
           ELSE /\ reqs' = [reqs EXCEPT ![r] =
                      [req EXCEPT !.pc = "dispatch",
                                  !.steps = <<"signature">> \o p.steps,
                                  !.alert = p.alert,
                                  !.trade_request = p.trade_request]]
                /\ loop' = r
    /\ UNCHANGED <<webhook_secret_source, environment, _webhook_secret,
                   _initialized, _last_init_attempt, clock>>

\* kraken_executor.execute_trade / validate_trade runs to its end and the
\* handler builds the response; answers are the answers the exchange may give
\* to AddOrder
DispatchWith(r, answers) ==
    /\ reqs[r].pc = "dispatch"
    /\ loop = r
    /\ \E credentials \in BOOLEAN, probe \in ProbeAnswers, answer \in answers :
         LET req == reqs[r]
             out == IF req.endpoint = "live"
                    THEN execute_trade(req.trade_request, _initialized,
                                       _last_init_attempt, clock, credentials,
                                       probe, answer)
                    ELSE validate_trade(req.trade_request, _initialized,
                                        _last_init_attempt, clock, credentials,
                                        probe, answer)
             response == HandlerResponse(req.endpoint, req.alert, out.response)
         IN  /\ _initialized' = out.init.initialized
             /\ _last_init_attempt' = out.init.last_init_attempt
             /\ reqs' = [reqs EXCEPT ![r] =
                    Respond([req EXCEPT !.attempted = out.init.attempted,
                                        !.probed = out.init.probed,
                                        !.order = out.order,
                                        !.calls = out.calls,
                                        !.answer = IF out.order.op = "AddOrder"
                                                   THEN answer ELSE None,
                                        !.outcome = out.response],
                            <<"dispatch">>, response,
                            IF RenderRaises(req.alert) THEN JsonRangeErrorText
                            ELSE None)]
    /\ loop' = 0
    /\ UNCHANGED <<webhook_secret_source, environment, _webhook_secret, clock>>

Dispatch(r) == DispatchWith(r, OrderAnswers)

\* the response has been sent and the request's objects are discarded
Complete(r) ==
    /\ reqs[r].pc = "responded"
    /\ reqs' = [reqs EXCEPT ![r] = IdleRequest]
    /\ UNCHANGED <<webhook_secret_source, environment, _webhook_secret,
                   _initialized, _last_init_attempt, clock, loop>>

\* time passes
Tick ==
    /\ clock < StartTime + MaxTicks * TickSeconds
    /\ clock' = clock + TickSeconds
    /\ UNCHANGED <<webhook_secret_source, environment, _webhook_secret,
                   _initialized, _last_init_attempt, loop, reqs>>

----------------------------------------------------------------------------
(* Spec: requests handled one after the other *)

Init == InitWith({1})

Next ==
    \/ \E r \in DOMAIN reqs : Receive(r, SpecRequests)
    \/ \E r \in DOMAIN reqs : HandlerStart(r)
    \/ \E r \in DOMAIN reqs : HandlerResume(r)
    \/ \E r \in DOMAIN reqs : Dispatch(r)
    \/ \E r \in DOMAIN reqs : Complete(r)
    \/ Tick

Spec == Init /\ [][Next]_vars

----------------------------------------------------------------------------
(* SpecSchema: the alerts of every order type, with every combination of
   optional members, one request after the other, no webhook secret *)

\* a price and a stop price that differ, and a leverage
AlertPrice == Num(MaxNum + 1)
AlertStopPrice == Num(MaxNum)
AlertLeverage == Num(MaxNum + 1)

SchemaBodies ==
    {RawObject(0, sym, side, ot, vol, price, stop, lev) :
        sym \in {Sym(<<>>), Sym(btcusd), Sym(ETH_USD)},
        side \in {Absent} \cup OrderSides,
        ot \in {Absent, "bogus"} \cup OrderTypes,
        vol \in {NumAbsent, NumNull} \cup Volumes,
        price \in {NumAbsent, NumNull, AlertPrice},
        stop \in {NumAbsent, NumNull, AlertStopPrice},
        lev \in {NumAbsent, AlertLeverage}}

SchemaRequests ==
    {[endpoint |-> e, signature |-> HdrAbsent, body |-> b] :
        e \in Endpoints, b \in SchemaBodies}

InitSchema ==
    /\ InitWith({1})
    /\ webhook_secret_source = None
    /\ environment = "production"

NextSchema ==
    \/ \E r \in DOMAIN reqs : Receive(r, SchemaRequests)
    \/ \E r \in DOMAIN reqs : HandlerStart(r)
    \/ \E r \in DOMAIN reqs : HandlerResume(r)
    \/ \E r \in DOMAIN reqs : Dispatch(r)
    \/ \E r \in DOMAIN reqs : Complete(r)

SpecSchema == InitSchema /\ [][NextSchema]_vars

----------------------------------------------------------------------------
(* SpecConcurrent: NumReq requests in flight at once on the one event loop,
   the clock advancing by half cooldowns, no webhook secret *)

\* a valid alert, a valid alert whose volume overflows to inf, and an alert
\* that validation rejects
ConcurrentBodies ==
    {ValidBody,
     RawObject(0, Sym(btcusd), "buy", Absent, NumInf, NumAbsent, NumAbsent, NumAbsent),
     RawObject(0, Sym(btcusd), "buy", Absent, Num(0), NumAbsent, NumAbsent, NumAbsent)}

\* the valid alert for the live endpoint, the other two for the validate
\* endpoint
ConcurrentRequests ==
    {[endpoint |-> IF b = ValidBody THEN "live" ELSE "validate",
      signature |-> HdrAbsent, body |-> b] : b \in ConcurrentBodies}

InitConcurrent ==
    /\ InitWith(1..NumReq)
    /\ webhook_secret_source = None
    /\ environment = "production"

\* half a cooldown passes
TickHalf ==
    /\ clock < StartTime + MaxHalfTicks * HalfCooldown
    /\ clock' = clock + HalfCooldown
    /\ UNCHANGED <<webhook_secret_source, environment, _webhook_secret,
                   _initialized, _last_init_attempt, loop, reqs>>

NextConcurrent ==
    \/ \E r \in DOMAIN reqs : Receive(r, ConcurrentRequests)
    \/ \E r \in DOMAIN reqs : HandlerStart(r)
    \/ \E r \in DOMAIN reqs : HandlerResume(r)
    \/ \E r \in DOMAIN reqs : Dispatch(r)
    \/ \E r \in DOMAIN reqs : Complete(r)
    \/ TickHalf

SpecConcurrent == InitConcurrent /\ [][NextConcurrent]_vars

----------------------------------------------------------------------------
(* SpecSymbol: alerts that differ in their symbol only, one request after the
   other, no webhook secret *)

\* the lowercase form of the letters of the alias table
LowerChar(c) ==
    CASE c = "B" -> "b" [] c = "T" -> "t" [] c = "C" -> "c" [] c = "U" -> "u"
      [] c = "S" -> "s" [] c = "D" -> "d" [] c = "E" -> "e" [] c = "H" -> "h"
      [] c = "X" -> "x" [] OTHER -> c

\* every spelling of s in upper and lower case
RECURSIVE CaseVariants(_)
CaseVariants(s) ==
    IF s = <<>> THEN {<<>>}
    ELSE {<<c>> \o t : c \in {Head(s), LowerChar(Head(s))},
                       t \in CaseVariants(Tail(s))}

SymbolChars == {"b", "B", "x", "/", Eszett}

\* every string of at most MaxSymLen characters, and every spelling of the
\* keys and values of symbol_mappings
Symbols ==
    UNION {[1..k -> SymbolChars] : k \in 0..MaxSymLen}
    \cup UNION {CaseVariants(s) : s \in {BTCUSD, BTC_USD, ETHUSD, ETH_USD, XBTUSD}}

SymbolRequests ==
    {[endpoint |-> "live", signature |-> HdrAbsent,
      body |-> RawObject(0, Sym(s), "buy", Absent, Num(MaxNum), NumAbsent,
                         NumAbsent, NumAbsent)] : s \in Symbols}

InitSymbol ==
    /\ InitWith({1})
    /\ webhook_secret_source = None
    /\ environment = "production"

NextSymbol ==
    \/ \E r \in DOMAIN reqs : Receive(r, SymbolRequests)
    \/ \E r \in DOMAIN reqs : HandlerStart(r)
    \/ \E r \in DOMAIN reqs : HandlerResume(r)
    \/ \E r \in DOMAIN reqs : Dispatch(r)
    \/ \E r \in DOMAIN reqs : Complete(r)

SpecSymbol == InitSymbol /\ [][NextSymbol]_vars

----------------------------------------------------------------------------
(* SpecGateway: every kind of reply of the exchange to AddOrder, one request
   after the other, no webhook secret *)

GatewayRequests ==
    {[endpoint |-> e, signature |-> HdrAbsent, body |-> b] :
        e \in Endpoints, b \in ConcurrentBodies}

InitGateway ==
    /\ InitWith({1})
    /\ webhook_secret_source = None
    /\ environment = "production"

NextGateway ==
    \/ \E r \in DOMAIN reqs : Receive(r, GatewayRequests)
    \/ \E r \in DOMAIN reqs : HandlerStart(r)
    \/ \E r \in DOMAIN reqs : HandlerResume(r)
    \/ \E r \in DOMAIN reqs : DispatchWith(r, GatewayAnswers)
    \/ \E r \in DOMAIN reqs : Complete(r)
    \/ Tick

SpecGateway == InitGateway /\ [][NextGateway]_vars

----------------------------------------------------------------------------
(* SpecSecret: the configured webhook secret changes while the process runs
   (a new version in Secret Manager, a secret removed or added), one request
   after the other *)

\* what WEBHOOK_SECRET may become
LaterSecretSources == SecretSources \cup SigningKeys

\* a valid alert and an alert that validation rejects
SecretBodies ==
    {ValidBody,
     RawObject(0, Sym(btcusd), "buy", Absent, Num(0), NumAbsent, NumAbsent, NumAbsent)}

SecretRequests ==
    UNION {{[endpoint |-> "live", signature |-> h, body |-> b] :
                h \in HeadersFor(b)} : b \in SecretBodies}

InitSecret ==
    /\ InitWith({1})
    /\ environment = "production"

\* the configured secret is changed, removed or added
ConfigChange ==
    /\ \E source \in LaterSecretSources \ {webhook_secret_source} :
          webhook_secret_source' = source
    /\ UNCHANGED <<environment, _webhook_secret, _initialized,
                   _last_init_attempt, clock, loop, reqs>>

NextSecret ==
    \/ \E r \in DOMAIN reqs : Receive(r, SecretRequests)
    \/ \E r \in DOMAIN reqs : HandlerStart(r)
    \/ \E r \in DOMAIN reqs : HandlerResume(r)
    \/ \E r \in DOMAIN reqs : Dispatch(r)
    \/ \E r \in DOMAIN reqs : Complete(r)
    \/ ConfigChange

SpecSecret == InitSecret /\ [][NextSecret]_vars

----------------------------------------------------------------------------
(* Vocabulary of the properties *)

Has(steps, name) == \E i \in 1..Len(steps) : steps[i] = name

\* the request called the exchange: a credential fetch / connectivity probe of
\* an initialization attempt, or an AddOrder call
CalledExchange(q) == q.attempted \/ q.probed \/ q.order.op # "none"

\* the request is in, or past, the exchange client
ReachedExecutor(q) == q.pc = "dispatch" \/ CalledExchange(q) \/ Has(q.steps, "dispatch")

SecretConfigured(q) == ~Falsy(q.webhook_secret)

\* the signature step has been decided for this request
SignatureDecided(q) == q.pc \in {"dispatch", "responded"}

----------------------------------------------------------------------------
(* C1 *)

\* C1: the exchange client is invoked for a request only after that request's
\* signature step and schema validation have both succeeded; a request whose
\* signature check fails, or whose payload fails parsing or validation, ends
\* without any call to the exchange.
C1_ExchangeOnlyAfterChecks ==
    \A r \in DOMAIN reqs :
        LET q == reqs[r]
            verdict == _validate_signature(q.webhook_secret, q.signature, q.body)
            checked == /\ verdict \in {"skip", "ok"}
                       /\ q.body.kind = "object"
                       /\ AlertErrors(q.body) = {}
        IN  /\ ReachedExecutor(q) =>
                /\ checked
                /\ Len(q.steps) >= 3
                /\ SubSeq(q.steps, 1, 3) = <<"signature", "parse", "validate">>
            /\ (q.pc = "responded" /\ ~checked) => ~ReachedExecutor(q)

\* a signed, valid request whose order was sent to the exchange
C1_Witness ==
    \E r \in DOMAIN reqs :
        /\ reqs[r].order.op = "AddOrder"
        /\ SecretConfigured(reqs[r])
        /\ reqs[r].pc = "responded"

----------------------------------------------------------------------------
(* C2 *)

\* C2: with a webhook secret configured, a request without X-Signature and a
\* request whose X-Signature differs from the expected signature are answered
\* 401, whatever the body is; never 200, 400 or 500.
C2_BadSignatureIs401 ==
    \A r \in DOMAIN reqs :
        LET q == reqs[r]
        IN  (/\ q.pc = "responded"
             /\ SecretConfigured(q)
             /\ q.signature # hmac_hexdigest(q.webhook_secret, q.body))
            => q.response.status = HTTP_401_UNAUTHORIZED

----------------------------------------------------------------------------
(* C3 *)

\* C3: with a secret K configured, a request with raw body B passes signature
\* verification if and only if its X-Signature equals the hex HMAC-SHA256 of
\* the exact bytes B under K.
C3_SignatureOverRawBytes ==
    \A r \in DOMAIN reqs :
        LET q == reqs[r]
        IN  (SignatureDecided(q) /\ SecretConfigured(q))
            => (Has(q.steps, "signature")
                <=> q.signature = hmac_hexdigest(q.webhook_secret, q.body))

\* a request whose raw bytes are not the canonical serialization of its JSON,
\* signed over those raw bytes, has passed verification
C3_Witness ==
    \E r \in DOMAIN reqs :
        /\ SecretConfigured(reqs[r])
        /\ reqs[r].body # Reserialize(reqs[r].body)
        /\ Has(reqs[r].steps, "signature")

----------------------------------------------------------------------------
(* C4 *)

\* what the handler answers when nothing depends on the signature header
ResponseWithoutSignature(q) ==
    LET p == ProcessBody(q.body)
    IN  IF p.result = "http" THEN HTTPException(p.status, p.text, p.fields)
        ELSE IF p.result = "raise" THEN HandlerExceptionResponse(p.exc)
        ELSE HandlerResponse(q.endpoint, p.alert, q.outcome)

\* C4: with no webhook secret configured, verification is skipped for every
\* request: it proceeds to parsing whatever its X-Signature header is, and the
\* response does not depend on that header.
C4_NoSecretSkipsVerification ==
    \A r \in DOMAIN reqs :
        LET q == reqs[r]
        IN  (q.pc # "idle" /\ q.pc # "received" /\ ~SecretConfigured(q)) =>
                /\ q.pc = "responded" =>
                     /\ Has(q.steps, "signature")
                     /\ q.response = ResponseWithoutSignature(q)
                /\ q.pc = "dispatch" => Has(q.steps, "signature")

\* no secret, a header that verification would refuse, and the order went out
C4_Witness ==
    \E r \in DOMAIN reqs :
        /\ reqs[r].pc = "responded"
        /\ ~SecretConfigured(reqs[r])
        /\ reqs[r].signature = HdrNonAscii
        /\ reqs[r].response.status = HTTP_200_OK

----------------------------------------------------------------------------
(* C5 *)

\* C5: an order call sent to the exchange carries validate = true if and only
\* if it comes from POST /webhook/tradingview/validate.
C5_ValidateFlagIffValidateEndpoint ==
    \A r \in DOMAIN reqs :
        LET q == reqs[r]
        IN  q.order.op = "AddOrder" =>
                ("validate" \in DOMAIN q.order.fields <=> q.endpoint = "validate")

\* an order call made for the validate endpoint
C5_Witness ==
    \E r \in DOMAIN reqs :
        /\ reqs[r].order.op = "AddOrder"
        /\ reqs[r].endpoint = "validate"
        /\ reqs[r].order.fields["validate"] = "True"

----------------------------------------------------------------------------
(* C6 *)

\* the request passed signature verification and schema validation
PassedChecks(q) == Has(q.steps, "validate")

\* C6: for a request that passed signature verification and schema
\* validation, the status is 200 exactly when the gateway outcome is a success
\* and otherwise 400 with the gateway's failure reason in the response; never
\* 500.
C6_StatusFollowsGatewayOutcome ==
    \A r \in DOMAIN reqs :
        LET q == reqs[r]
        IN  (q.pc = "responded" /\ PassedChecks(q)) =>
                /\ q.outcome.success => q.response.status = HTTP_200_OK
                /\ ~q.outcome.success =>
                     /\ q.response.status = HTTP_400_BAD_REQUEST
                     /\ q.response.error = q.outcome.error

----------------------------------------------------------------------------
(* C7 *)

\* C7: a request that passes the signature step but whose body is not a JSON
\* object (bytes that are no JSON, or a JSON array, string, number or null) is
\* answered 400, never 500, and causes no exchange call.
C7_NonObjectBodyIs400 ==
    \A r \in DOMAIN reqs :
        LET q == reqs[r]
        IN  (/\ q.pc = "responded"
             /\ _validate_signature(q.webhook_secret, q.signature, q.body)
                    \in {"skip", "ok"}
             /\ q.body.kind # "object")
            => /\ q.response.status = HTTP_400_BAD_REQUEST
               /\ ~CalledExchange(q)

----------------------------------------------------------------------------
(* C8 and C10: the schema rules as the specification states them *)

\* the members of a JSON object that break a rule of the alert schema: symbol
\* required and not empty, side buy or sell, order_type one of the six, volume
\* positive, price and stop_price present where the order type requires them
OffendingFields(body) ==
    LET order_type == IF body.order_type = Absent THEN "market" ELSE body.order_type
    IN  {f \in {"symbol", "side", "order_type", "volume", "price", "stop_price"} :
            \/ f = "symbol" /\ (body.symbol.k = "absent" \/ body.symbol.s = <<>>)
            \/ f = "side" /\ body.side \notin OrderSides
            \/ f = "order_type" /\ order_type \notin OrderTypes
            \/ f = "volume" /\ body.volume.k = "num" /\ body.volume.n <= 0
            \/ f = "price" /\ body.price.k \in {"absent", "null"}
                           /\ order_type \in price_required_for
            \/ f = "stop_price" /\ body.stop_price.k \in {"absent", "null"}
                                /\ order_type \in stop_price_required_for}

\* C8: every JSON object that violates one or more schema rules and passes the
\* signature step is answered 400 with a detail beginning "Invalid payload
\* format" that names every offending field; no alert, order command or
\* exchange call is produced.
C8_EveryOffendingFieldNamed ==
    \A r \in DOMAIN reqs :
        LET q == reqs[r]
        IN  (/\ q.pc = "responded"
             /\ Has(q.steps, "signature")
             /\ q.body.kind = "object"
             /\ OffendingFields(q.body) # {})
            => /\ q.response.status = HTTP_400_BAD_REQUEST
               /\ q.response.detail.text = "Invalid payload format"
               /\ q.response.detail.fields = OffendingFields(q.body)
               /\ q.alert = NoAlert
               /\ q.trade_request = NoTradeRequest
               /\ ~CalledExchange(q)

\* C10: schema validation rejects, citing the missing field, every alert whose
\* order type requires a price and has none, and every alert whose order type
\* requires a stop_price and has none; such an alert never reaches translation
\* or the exchange.
C10_RequiredPricesEnforced ==
    \A r \in DOMAIN reqs :
        LET q == reqs[r]
            order_type == IF q.body.order_type = Absent THEN "market"
                          ELSE q.body.order_type
            missing == {f \in {"price", "stop_price"} : f \in OffendingFields(q.body)}
        IN  (/\ q.body.kind = "object"
             /\ Has(q.steps, "signature")
             /\ missing # {})
            => /\ ~Has(q.steps, "translate")
               /\ ~ReachedExecutor(q)
               /\ q.pc = "responded" =>
                    /\ q.response.status = HTTP_400_BAD_REQUEST
                    /\ missing \subseteq q.response.detail.fields

----------------------------------------------------------------------------
(* C9 *)

\* C9: whenever an unexpected exception occurs while a webhook request is
\* handled, the response is 500 and, unless the environment is development,
\* its body does not contain the exception's message: it is the same generic
\* text for every exception.
C9_InternalDetailHidden ==
    \A r \in DOMAIN reqs :
        LET q == reqs[r]
        IN  (q.pc = "responded" /\ q.exc # None) =>
                /\ q.response.status = HTTP_500_INTERNAL_SERVER_ERROR
                /\ environment # "development" =>
                     q.response.error = GenericErrorText

----------------------------------------------------------------------------
(* C11 *)

\* the schema has decided on the request's payload
SchemaDecided(q) ==
    q.body.kind = "object" /\ (q.pc = "dispatch" \/ Has(q.steps, "parse"))

\* the members of the order command as they are sent (exclude_none)
CommandFields(q) == DOMAIN DictExcludeNone(q.trade_request).fields

\* C11: every alert with a volume that is zero or negative is rejected by
\* schema validation (400 naming volume, no alert, no order command), and
\* every otherwise valid alert without a volume is accepted and translated
\* into an order command that has no volume member.
C11_VolumeRule ==
    \A r \in DOMAIN reqs :
        LET q == reqs[r]
        IN  SchemaDecided(q) =>
                /\ (q.body.volume.k = "num" /\ q.body.volume.n <= 0) =>
                      /\ q.pc = "responded"
                      /\ q.response.status = HTTP_400_BAD_REQUEST
                      /\ "volume" \in q.response.detail.fields
                      /\ ~Has(q.steps, "validate")
                      /\ q.trade_request = NoTradeRequest
                      /\ ~CalledExchange(q)
                /\ (q.body.volume.k = "absent" /\ OffendingFields(q.body) = {}) =>
                      /\ Has(q.steps, "translate")
                      /\ q.trade_request # NoTradeRequest
                      /\ "volume" \notin CommandFields(q)
                      /\ q.order.op = "AddOrder" => "volume" \notin DOMAIN q.order.fields

\* an alert without a volume whose order command reached the exchange
C11_Witness ==
    \E r \in DOMAIN reqs :
        /\ reqs[r].body.kind = "object"
        /\ reqs[r].body.volume.k = "absent"
        /\ reqs[r].order.op = "AddOrder"
        /\ reqs[r].response.status = HTTP_200_OK

----------------------------------------------------------------------------
(* C12 *)

\* C12: an alert whose symbol is the empty string (or empty after uppercasing
\* and alias mapping) is rejected by schema validation; no accepted alert, and
\* hence no order command sent to the exchange, has an empty symbol or pair.
C12_NoEmptySymbol ==
    \A r \in DOMAIN reqs :
        LET q == reqs[r]
        IN  SchemaDecided(q) =>
                /\ (/\ q.body.symbol.k = "str"
                     /\ (q.body.symbol.s = <<>> \/ validate_symbol(q.body.symbol.s) = <<>>))
                    => /\ q.pc = "responded"
                       /\ q.response.status = HTTP_400_BAD_REQUEST
                       /\ "symbol" \in q.response.detail.fields
                       /\ ~Has(q.steps, "validate")
                /\ Has(q.steps, "validate") => q.alert.symbol # <<>>
                /\ q.order.op = "AddOrder" => q.order.pair # <<>>

----------------------------------------------------------------------------
(* C13 *)

\* the steps of a request, in order
Pipeline == <<"signature", "parse", "validate", "translate", "dispatch">>

IsPrefix(s, t) == Len(s) <= Len(t) /\ SubSeq(t, 1, Len(s)) = s

Count(seq, x) == Cardinality({i \in 1..Len(seq) : seq[i] = x})

\* the steps the request completed before its response
StepsDone(q) ==
    IF q.pc = "responded" THEN SubSeq(q.steps, 1, Len(q.steps) - 1) ELSE q.steps

\* C13: each request runs the pipeline once, in the order signature check,
\* JSON parse, schema validation, translation, dispatch, response.  No step is
\* revisited or retried; the first failing step ends the request with the
\* status of that failure (signature 401, parse and validation 400, gateway
\* failure 400, an exception 500); at most one order call is made to the
\* exchange per request; a request in progress can always take its next step
\* and it ends with exactly one response.
C13_PipelineOnce ==
    \A r \in DOMAIN reqs :
        LET q == reqs[r]
            done == StepsDone(q)
        IN  /\ IsPrefix(done, Pipeline)
            /\ Count(q.steps, "respond") = (IF q.pc = "responded" THEN 1 ELSE 0)
            /\ q.pc = "responded" => q.steps[Len(q.steps)] = "respond"
            /\ Count(q.calls, "AddOrder") <= 1
            /\ Count(q.calls, "AddOrder") = (IF q.order.op = "AddOrder" THEN 1 ELSE 0)
            /\ q.pc \in {"received", "awaiting_body", "dispatch"} =>
                   ENABLED (HandlerStart(r) \/ HandlerResume(r) \/ Dispatch(r))
            /\ q.pc = "responded" =>
                   /\ Len(done) \in {0, 1, 2, Len(Pipeline)}
                   /\ q.exc # None =>
                         q.response.status = HTTP_500_INTERNAL_SERVER_ERROR
                   /\ (q.exc = None /\ Len(done) = 0) =>
                         q.response.status = HTTP_401_UNAUTHORIZED
                   /\ (q.exc = None /\ Len(done) \in {1, 2}) =>
                         q.response.status = HTTP_400_BAD_REQUEST
                   /\ (q.exc = None /\ done = Pipeline) =>
                         q.response.status = (IF q.outcome.success THEN HTTP_200_OK
                                              ELSE HTTP_400_BAD_REQUEST)
                   /\ Len(done) < Len(Pipeline) => ~CalledExchange(q)

\* a request whose order call raised: the call was made once and the request
\* was answered
C13_Witness ==
    \E r \in DOMAIN reqs :
        /\ reqs[r].pc = "responded"
        /\ StepsDone(reqs[r]) = Pipeline
        /\ reqs[r].calls = <<"Time", "AddOrder">>
        /\ ~reqs[r].outcome.success
        /\ reqs[r].outcome.details.kind = "none"
        /\ reqs[r].response.status = HTTP_400_BAD_REQUEST

----------------------------------------------------------------------------
(* C14, C15, C16: the lazy initialization of the exchange client *)

\* this step is request r running execute_trade / validate_trade to its end
Dispatched(r) == reqs[r].pc = "dispatch" /\ reqs'[r].pc = "responded"

\* the outcome of a request that found the client uninitialized and did not
\* get it initialized
InitFailure ==
    error_response("Failed to initialize Kraken API",
                   [kind |-> "retry_after", retry_after |-> InitCooldown])

\* an initialization attempt has failed and its cooldown has not expired
InCooldown ==
    /\ ~_initialized
    /\ _last_init_attempt # 0
    /\ clock - _last_init_attempt < InitCooldown

\* C14: after an initialization attempt has failed, every request that
\* reaches dispatch less than 60 seconds after that attempt performs no new
\* initialization attempt and no order call, receives the same failure
\* outcome with a retry-after hint of 60, and is answered 400.
C14_CooldownAnswer ==
    [][\A r \in DOMAIN reqs :
          (Dispatched(r) /\ InCooldown) =>
              /\ ~reqs'[r].attempted
              /\ reqs'[r].calls = <<>>
              /\ reqs'[r].order.op = "none"
              /\ _last_init_attempt' = _last_init_attempt
              /\ ~_initialized'
              /\ reqs'[r].outcome = InitFailure
              /\ reqs'[r].outcome.details.retry_after = 60
              /\ reqs'[r].response.status = HTTP_400_BAD_REQUEST]_vars

\* C15: the exchange client is initialized at most once successfully.  Once
\* an initialization attempt has succeeded the client stays ready, no later
\* request performs another attempt (no credential fetch, no probe, the time
\* of the last attempt stays), and no gateway error or exception during a
\* later order call returns the client to the uninitialized state.
C15_InitializedOnce ==
    [][_initialized =>
          /\ _initialized'
          /\ _last_init_attempt' = _last_init_attempt
          /\ \A r \in DOMAIN reqs :
                Dispatched(r) =>
                    /\ ~reqs'[r].attempted
                    /\ ~reqs'[r].probed
                    /\ reqs'[r].calls = <<"AddOrder">>]_vars

\* the client is ready, and a request dispatched after the one that
\* initialized it had its order call raise
C15_Witness ==
    /\ _initialized
    /\ \E r \in DOMAIN reqs :
          /\ reqs[r].pc = "responded"
          /\ ~reqs[r].attempted
          /\ reqs[r].calls = <<"AddOrder">>
          /\ reqs[r].outcome = OrderResult("exception")

\* C16: a failed initialization is retried lazily and only after the
\* cooldown.  While the client is uninitialized, a dispatched request performs
\* a new initialization attempt exactly when at least 60 seconds have passed
\* since the most recent attempt (the first request always attempts); a
\* request skipped during the cooldown does not restart it, so consecutive
\* attempts are at least 60 seconds apart; and when the attempt succeeds the
\* attempting request's own order is submitted.
C16_LazyRetryAfterCooldown ==
    [][\A r \in DOMAIN reqs :
          (Dispatched(r) /\ ~_initialized) =>
              /\ reqs'[r].attempted <=> clock - _last_init_attempt >= InitCooldown
              /\ _last_init_attempt = 0 => reqs'[r].attempted
              /\ reqs'[r].attempted =>
                    /\ _last_init_attempt' = clock
                    /\ _last_init_attempt' - _last_init_attempt >= InitCooldown
              /\ ~reqs'[r].attempted =>
                    /\ _last_init_attempt' = _last_init_attempt
                    /\ ~_initialized'
                    /\ reqs'[r].calls = <<>>
              /\ _initialized' =>
                    /\ reqs'[r].attempted
                    /\ reqs'[r].calls = <<"Time", "AddOrder">>
                    /\ reqs'[r].order.op = "AddOrder"
                    /\ reqs'[r].order.pair = reqs[r].trade_request.pair
              /\ ~_initialized' => reqs'[r].outcome = InitFailure]_vars

\* one request's attempt failed, and the attempt of a later request, made
\* after the cooldown, succeeded and its order was acknowledged
C16_Witness ==
    /\ _initialized
    /\ \E r1, r2 \in DOMAIN reqs :
          /\ reqs[r1].pc = "responded"
          /\ reqs[r1].attempted
          /\ reqs[r1].outcome = InitFailure
          /\ reqs[r2].pc = "responded"
          /\ reqs[r2].attempted
          /\ reqs[r2].order.op = "AddOrder"
          /\ reqs[r2].outcome.success

----------------------------------------------------------------------------
(* C17 *)

\* C17: no request blocks on another request's exchange call.  While one
\* request's exchange call is in progress, a second request that has arrived
\* can take its next step (be verified, validated, rejected, or start its own
\* exchange call) without waiting for the first call to finish.
C17_NoBlockingOnExchangeCall ==
    \A r1, r2 \in DOMAIN reqs :
        (/\ r1 # r2
         /\ reqs[r1].pc = "dispatch"
         /\ reqs[r2].pc \in {"received", "awaiting_body"})
        => ENABLED (HandlerStart(r2) \/ HandlerResume(r2))

----------------------------------------------------------------------------
(* C18, C19, C20: the order command made of a validated alert *)

\* the request's alert was translated into an order command
Translated(q) == Has(q.steps, "translate")

\* the decimal string of an optional number of the alert, None when it has none
StrOrNone(f) == IF f.k = "none" THEN None ELSE FloatStr(f)

\* C18: for every order type other than stop-loss and take-profit the primary
\* price of the order command is populated iff the alert has a price, and then
\* holds that price; the alert's stop_price is written to the primary price
\* only for stop-loss and take-profit, so for market and limit alerts a
\* supplied stop_price never replaces or creates the primary price.
C18_PrimaryPriceFromPrice ==
    \A r \in DOMAIN reqs :
        LET q == reqs[r]
            alert == q.alert
        IN  (Translated(q) /\ alert.order_type \notin {"stop-loss", "take-profit"}) =>
                /\ q.trade_request.price # None <=> alert.price.k # "none"
                /\ q.trade_request.price = StrOrNone(alert.price)
                /\ q.order.op = "AddOrder" =>
                      ("price" \in DOMAIN q.order.fields <=> alert.price.k # "none")

\* C19: for every alert with order_type stop-loss-limit or take-profit-limit
\* and a stop_price, translation writes the stop_price to price2 and never to
\* the primary price; the primary price comes from the alert's price only and
\* is absent when the alert has no price.
C19_StopPriceToPrice2 ==
    \A r \in DOMAIN reqs :
        LET q == reqs[r]
            alert == q.alert
        IN  (/\ Translated(q)
             /\ alert.order_type \in {"stop-loss-limit", "take-profit-limit"}
             /\ alert.stop_price.k # "none")
            => /\ q.trade_request.price2 = FloatStr(alert.stop_price)
               /\ q.trade_request.price = StrOrNone(alert.price)
               /\ q.order.op = "AddOrder" =>
                     /\ "price2" \in DOMAIN q.order.fields
                     /\ q.order.fields["price2"] = FloatStr(alert.stop_price)
                     /\ "price" \in DOMAIN q.order.fields <=> alert.price.k # "none"
                     /\ alert.price.k # "none" =>
                           q.order.fields["price"] = FloatStr(alert.price)

\* a stop-loss-limit order with a stop_price and no price went to the
\* exchange with price2 and without price
C19_Witness ==
    \E r \in DOMAIN reqs :
        /\ reqs[r].alert.order_type = "stop-loss-limit"
        /\ reqs[r].alert.stop_price.k # "none"
        /\ reqs[r].alert.price.k = "none"
        /\ reqs[r].order.op = "AddOrder"
        /\ DOMAIN reqs[r].order.fields = {"type", "ordertype", "volume", "price2"}

\* C20: translation is a total, deterministic function on validated alerts.
\* Every alert the schema accepts (all six order types, every combination of
\* optional members) is translated without an exception and goes on to
\* dispatch; the command's pair is the normalized symbol, its side the alert's
\* side, its ordertype the alert's order_type string; and the command is a
\* function of the alert alone, unchanged by dispatch.
C20_TranslationTotal ==
    \A r \in DOMAIN reqs :
        LET q == reqs[r]
        IN  /\ (SchemaDecided(q) /\ AlertErrors(q.body) = {}) =>
                  /\ Has(q.steps, "validate")
                  /\ Translated(q)
                  /\ q.pc = "dispatch" \/ Has(q.steps, "dispatch")
            /\ Has(q.steps, "validate") =>
                  /\ Translated(q)
                  /\ q.trade_request # NoTradeRequest
                  /\ q.trade_request.pair = validate_symbol(q.body.symbol.s)
                  /\ q.trade_request.type = q.body.side
                  /\ q.trade_request.type \in OrderSides
                  /\ q.trade_request.ordertype =
                        (IF q.body.order_type = Absent THEN "market"
                         ELSE q.body.order_type)
                  /\ q.trade_request.ordertype \in OrderTypes
                  /\ q.trade_request = from_tradingview_alert(q.alert)
                  /\ q.order.op = "AddOrder" =>
                        /\ q.order.pair = q.trade_request.pair
                        /\ q.order.fields["type"] = q.trade_request.type
                        /\ q.order.fields["ordertype"] = q.trade_request.ordertype

\* a take-profit-limit alert with every optional member, sent under an alias
\* of its pair, was translated and validated at the exchange
C20_Witness ==
    \E r \in DOMAIN reqs :
        /\ reqs[r].body.symbol = Sym(ETH_USD)
        /\ reqs[r].trade_request.pair = ETHUSD
        /\ reqs[r].trade_request.ordertype = "take-profit-limit"
        /\ reqs[r].trade_request.type = "sell"
        /\ DOMAIN reqs[r].order.fields =
              {"type", "ordertype", "volume", "price", "price2", "leverage", "validate"}

----------------------------------------------------------------------------
(* C21 *)

\* C21: symbol normalization (uppercase, then the alias table) is idempotent:
\* normalizing the normalized symbol of an alert gives it back, for every
\* symbol; and it is case-insensitive on the aliases: every spelling of
\* "btcusd" and of "btc/usd" normalizes to "XBTUSD", and a symbol and its
\* uppercase form normalize to the same value.
C21_NormalizeIdempotent ==
    \A r \in DOMAIN reqs :
        LET q == reqs[r]
            s == q.body.symbol.s
        IN  Has(q.steps, "validate") =>
                /\ q.alert.symbol = validate_symbol(s)
                /\ validate_symbol(q.alert.symbol) = q.alert.symbol
                /\ validate_symbol(Upper(s)) = q.alert.symbol
                /\ s \in CaseVariants(BTCUSD) \cup CaseVariants(BTC_USD) =>
                      q.alert.symbol = XBTUSD
                /\ q.order.op = "AddOrder" =>
                      validate_symbol(q.order.pair) = q.order.pair

\* an order for "bTc/uSd" went to the exchange with pair XBTUSD
C21_Witness ==
    \E r \in DOMAIN reqs :
        /\ reqs[r].body.symbol.s = <<"b", "T", "c", "/", "u", "S", "d">>
        /\ reqs[r].alert.symbol = XBTUSD
        /\ reqs[r].order.op = "AddOrder"
        /\ reqs[r].order.pair = XBTUSD

----------------------------------------------------------------------------
(* C22 *)

\* the exchange replied to the request's order call with an empty error list
\* and a txid list that is not empty
Acknowledged(q) ==
    /\ q.answer # None
    /\ ~Reply(q.answer).raises
    /\ Reply(q.answer).error = <<>>
    /\ Reply(q.answer).txid.k = "list"
    /\ Reply(q.answer).txid.ids # <<>>

\* C22: the gateway outcome is a success exactly when the exchange reply has
\* an empty error list and a non-empty txid list, and then its order id is the
\* first txid.  In every other case (non-empty error list, no txid or an empty
\* txid list, exception, client not ready) it is a failure with a non-empty
\* reason and no order id.  No outcome is both or neither.
C22_SuccessIffTxid ==
    \A r \in DOMAIN reqs :
        LET q == reqs[r]
        IN  Has(q.steps, "dispatch") =>
                /\ q.outcome.success <=> Acknowledged(q)
                /\ q.answer = None <=> q.order.op = "none"
                /\ q.outcome.success =>
                      /\ q.outcome.order_id = Reply(q.answer).txid.ids[1]
                      /\ q.outcome.order_id # None
                      /\ q.outcome.error = None
                /\ ~q.outcome.success =>
                      /\ q.outcome.order_id = None
                      /\ q.outcome.error # None
                      /\ q.outcome.error # ""

\* the exchange acknowledged an order with two txids and the outcome carries
\* the first
C22_Witness ==
    \E r \in DOMAIN reqs :
        /\ reqs[r].pc = "responded"
        /\ reqs[r].answer = "two_txids"
        /\ reqs[r].outcome.success
        /\ reqs[r].outcome.order_id = OrderId2

----------------------------------------------------------------------------
(* C23 *)

\* this step is request r starting: it obtains the webhook secret
Started(r) == reqs[r].pc = "received" /\ reqs'[r].pc # "received"

\* this step is request r comparing its signature
Compared(r) == reqs[r].pc = "awaiting_body" /\ reqs'[r].pc # "awaiting_body"

\* the secret the configuration holds now, None when it holds none
ConfiguredNow ==
    IF webhook_secret_source = None \/ webhook_secret_source = "" THEN None
    ELSE webhook_secret_source

\* C23: the webhook secret is cached on its first successful read for the
\* life of the process.  Once a secret K is cached it stays, every later
\* request is checked against K and its verification is never skipped,
\* whatever the configuration has become; while no secret has been found each
\* request reads the configuration again, so a secret configured later is the
\* one the next request is checked against.
C23_SecretCachedForLife ==
    [][/\ _webhook_secret # None =>
             /\ _webhook_secret' = _webhook_secret
             /\ ~Falsy(_webhook_secret)
       /\ \A r \in DOMAIN reqs :
             /\ Started(r) =>
                   /\ reqs'[r].webhook_secret =
                         (IF _webhook_secret # None THEN _webhook_secret
                          ELSE ConfiguredNow)
                   /\ _webhook_secret' = reqs'[r].webhook_secret
                   /\ SecretConfigured(reqs'[r]) =>
                         \/ reqs'[r].pc = "awaiting_body"
                         \/ /\ reqs'[r].pc = "responded"
                            /\ reqs'[r].signature.kind \in {"absent", "empty"}
                            /\ reqs'[r].response.status = HTTP_401_UNAUTHORIZED
             /\ Compared(r) =>
                   /\ reqs'[r].webhook_secret = reqs[r].webhook_secret
                   /\ SecretConfigured(reqs[r]) =>
                         (Has(reqs'[r].steps, "signature")
                          <=> reqs[r].signature =
                                hmac_hexdigest(reqs[r].webhook_secret, reqs[r].body))]_vars

\* the cached secret is no longer the configured one, and a request signed
\* with the configured one was refused
C23_Witness ==
    /\ _webhook_secret = "K1"
    /\ webhook_secret_source = "K2"
    /\ \E r \in DOMAIN reqs :
          /\ reqs[r].pc = "responded"
          /\ reqs[r].webhook_secret = "K1"
          /\ reqs[r].signature = hmac_hexdigest("K2", reqs[r].body)
          /\ reqs[r].response.status = HTTP_401_UNAUTHORIZED

====
